---- MODULE Spec2Model ----
(***************************************************************************)
(* Order processing system: the order orchestrator (pkg/order), the        *)
(* inventory ledger (pkg/inventory) and the payment gateway (pkg/payment). *)
(* Every CreateOrder request runs on its own goroutine and talks to the    *)
(* ledger and the gateway through blocking request/response calls; every   *)
(* ledger call runs on its own goroutine under the ledger's mutex.         *)
(***************************************************************************)
EXTENDS Integers, Sequences, FiniteSets, TLC

\* ------------------------------------------------------------------ bounds

\* the two quantities requests are made with (a small and a large one)
QtySmall == 2
QtyLarge == 30
\* number of ledger calls made by clients other than the orchestrator
MaxDirect == 3
\* number of UpdateOrderStatus requests that come while orders are being created
MaxUpdates == 1
\* number of UpdateOrderStatus requests of a client that follows one order
MaxOrderUpdates == 2
\* number of GetOrder requests
MaxGets == 2
\* seconds that pass while a client follows its order
MaxClock == 1
\* number of collaborator calls that end in a communication error
MaxCommFail == 1

\* ------------------------------------------------------------ identifiers

\* concurrent CreateOrder requests, one goroutine each, named in the order they arrive
Arrival == <<"w1", "w2">>
Workers == {Arrival[k] : k \in DOMAIN Arrival}
\* other clients of the inventory service
Clients == {"c1", "c2", "c3"}
Callers == Workers \cup Clients

NoCall == [pc |-> "none"]
Free == "free"

\* Go int32 addition and subtraction: the result wraps modulo 2^32 into
\* -2^31 .. 2^31 - 1 (written so that no intermediate value leaves that range)
Add32(a, b) ==
  IF b > 0 /\ a > 2147483647 - b
  THEN (a - 2147483647 - 1) + (b - 2147483647 - 1)
  ELSE IF b < 0 /\ a < (-2147483647 - 1) - b
  THEN (a + 2147483647 + 1) + (b + 2147483647 + 1)
  ELSE a + b
Sub32(a, b) ==
  IF b > 0 /\ a < (-2147483647 - 1) + b
  THEN (a + 2147483647 + 1) + (2147483647 - b + 1)
  ELSE IF b < 0 /\ a > 2147483647 + b
  THEN (a - 2147483647 - 1) + (-1 - b - 2147483647)
  ELSE a - b

\* ---------------------------------------------------------------- ledger

\* the sample products NewService starts with (prices in cents)
InitProducts ==
  [p \in {"product-1", "product-2", "product-3"} |->
     CASE p = "product-1" -> [Id |-> p, Name |-> "Laptop", StockQuantity |-> 50, Price |-> 99999]
       [] p = "product-2" -> [Id |-> p, Name |-> "Mouse", StockQuantity |-> 100, Price |-> 2999]
       [] p = "product-3" -> [Id |-> p, Name |-> "Keyboard", StockQuantity |-> 75, Price |-> 7999]]

\* ---------------------------------------------------------------- inputs

\* the line items requests are built from: a large quantity of product-1, a small
\* one of product-2 (both at the catalogue price) and a product the ledger lacks
ItemChoices ==
  {[ProductId |-> "product-1", Quantity |-> QtyLarge, UnitPrice |-> InitProducts["product-1"].Price],
   [ProductId |-> "product-2", Quantity |-> QtySmall, UnitPrice |-> InitProducts["product-2"].Price],
   [ProductId |-> "product-9", Quantity |-> QtySmall, UnitPrice |-> 0]}

\* the largest quantity a request can carry (quantity is an int32)
MaxInt32 == 2147483647

\* what other clients reserve and release: the same, and the largest quantity
DirectChoices ==
  {[ProductId |-> i.ProductId, Quantity |-> i.Quantity] : i \in ItemChoices}
  \cup {[ProductId |-> "product-1", Quantity |-> MaxInt32]}

\* the order of the test client: two laptops and one mouse, prices in cents
TestClientItems ==
  <<[ProductId |-> "product-1", Quantity |-> 2, UnitPrice |-> 99999],
    [ProductId |-> "product-2", Quantity |-> 1, UnitPrice |-> 2999]>>

ItemLists ==
  {<<>>} \cup {<<a>> : a \in ItemChoices} \cup {<<a, b>> : a \in ItemChoices, b \in ItemChoices}

CustomerIds == {"customer-123"}

Statuses == {"PENDING", "PROCESSING", "COMPLETED", "CANCELLED"}

VARIABLES
  products,     \* inventory service.products: product id -> Product
  ledgerMutex,  \* inventory service.mutex: Free or the caller whose call holds it
  rpc,          \* per caller, its ledger call in flight (request, handler position, response)
  orders,       \* order service.orders: order id -> Order, for the ids stored
  pc,           \* per CreateOrder request, its position in CreateOrder
  req,          \* per CreateOrder request, its locals: customerID, items, orderID, totalAmount, order, i
  pay,          \* per CreateOrder request, its ProcessPayment call: request and response
  ret,          \* per CreateOrder request, what CreateOrder returned
  ordersCreated, \* the counter orders_created_total, by its label status
  directCalls,  \* ledger calls made so far by other clients
  updates,      \* UpdateOrderStatus requests made so far
  commFails,    \* collaborator calls that ended in a communication error so far
  lastUpdate,   \* the last UpdateOrderStatus request and what it returned
  lookup,       \* the GetOrder request in flight (or the last one returned) and its result
  gets,         \* GetOrder requests made so far
  seen,         \* history: per order id, what the last GetOrder returned, if no
                \* UpdateOrderStatus of that id came after it
  orderMutex,   \* order service.mutex: Free or held by the UpdateOrderStatus in progress
  clock,        \* time.Now(), in seconds since the services started
  log,          \* history: per CreateOrder request, the collaborator calls it issued and how each ended
  pre,          \* history: per CreateOrder request, the ledger's stock when the request began
  touched,      \* history: per CreateOrder request, the products other callers changed during it
  currentStock, \* the gauge current_stock: per product that has a series, its value
  shadow        \* history: the stock a serial execution of the ledger calls, in lock order, gives

vars == <<products, ledgerMutex, rpc, orders, pc, req, pay, ret, ordersCreated, directCalls, updates,
          commFails, lastUpdate, lookup, gets, seen, orderMutex, clock, log, pre, touched,
          currentStock, shadow>>

ledgerVars == <<products, ledgerMutex, shadow>>
getVars == <<lookup, gets, seen>>
orderVars == <<orders, updates, lastUpdate, getVars, orderMutex, clock>>

StockOf(prods) == [p \in DOMAIN prods |-> prods[p].StockQuantity]

NoReq == [customerID |-> "", items |-> <<>>, orderID |-> "", totalAmount |-> 0,
          order |-> [Status |-> "none"], i |-> 0, ctx |-> "live"]
NoPay == [state |-> "none"]
NoRet == [order |-> "nil", err |-> "nil"]
NoLookup == [pc |-> "none"]
NoUpdate == [pc |-> "none", order |-> "nil", err |-> "nil"]

Init ==
  /\ products = InitProducts
  /\ ledgerMutex = Free
  /\ rpc = [c \in Callers |-> NoCall]
  /\ orders = <<>>
  /\ pc = [w \in Workers |-> "idle"]
  /\ req = [w \in Workers |-> NoReq]
  /\ pay = [c \in Callers |-> NoPay]
  /\ ret = [w \in Workers |-> NoRet]
  /\ ordersCreated = [status \in {"success", "failed"} |-> 0]
  /\ directCalls = 0
  /\ updates = 0
  /\ commFails = 0
  /\ lastUpdate = NoUpdate
  /\ lookup = NoLookup
  /\ gets = 0
  /\ seen = <<>>
  /\ orderMutex = Free
  /\ clock = 0
  /\ log = [w \in Workers |-> <<>>]
  /\ pre = [w \in Workers |-> StockOf(InitProducts)]
  /\ touched = [w \in Workers |-> {}]
  /\ shadow = StockOf(InitProducts)
  /\ currentStock = <<>>

\* ------------------------------------------------- inventory service (ledger)

\* mutant: a call for a product the ledger lacks is answered with success=true
NotFoundResponseSuccess(pid) ==
  [Success |-> TRUE, Message |-> <<"Product not found", pid>>, ReservedQuantity |-> 0]
NotFoundResponse(pid) ==
  [Success |-> FALSE, Message |-> <<"Product not found", pid>>, ReservedQuantity |-> 0]
InsufficientResponse(available, requested) ==
  [Success |-> FALSE, Message |-> <<"Insufficient stock", available, requested>>,
   ReservedQuantity |-> 0]
ReservedResponse(quantity) ==
  [Success |-> TRUE, Message |-> <<"Stock reserved successfully">>, ReservedQuantity |-> quantity]
\* mutant: ReleaseStock changes the stock and answers success=false
ReleasedResponseRefused ==
  [Success |-> FALSE, Message |-> <<"Stock released successfully">>, ReservedQuantity |-> 0]
ReleasedResponse ==
  [Success |-> TRUE, Message |-> <<"Stock released successfully">>, ReservedQuantity |-> 0]

\* mutant: ReserveStock and ReleaseStock without the mutex
MutexLockMissing(m) == TRUE

\* s.mutex.Lock(): blocks until no other call holds the mutex
MutexLock(m) == m = Free

\* mutant: ReserveStock without the insufficient-stock test
StockInsufficientNever(available, quantity) == FALSE
\* the insufficient-stock test of ReserveStock
StockInsufficient(available, quantity) == available < quantity

\* mutant: ReserveStock takes one unit more than was asked for
StockAfterReserveOneMore(available, quantity) == Sub32(Sub32(available, quantity), 1)
\* product.StockQuantity -= quantity
StockAfterReserve(available, quantity) == Sub32(available, quantity)
\* mutant: ReleaseStock answers success without putting the stock back
StockAfterReleaseLost(available, quantity) == available
\* product.StockQuantity += quantity
StockAfterRelease(available, quantity) == Add32(available, quantity)

\* ReserveStock and ReleaseStock run alone on a stock table st: the new table and the response
SerialReserve(st, pid, quantity) ==
  IF pid \notin DOMAIN st THEN [stock |-> st, resp |-> NotFoundResponse(pid)]
  ELSE IF StockInsufficient(st[pid], quantity)
       THEN [stock |-> st, resp |-> InsufficientResponse(st[pid], quantity)]
       ELSE [stock |-> [st EXCEPT ![pid] = StockAfterReserve(@, quantity)],
             resp |-> ReservedResponse(quantity)]
SerialRelease(st, pid, quantity) ==
  IF pid \notin DOMAIN st THEN [stock |-> st, resp |-> NotFoundResponse(pid)]
  ELSE [stock |-> [st EXCEPT ![pid] = StockAfterRelease(@, quantity)],
        resp |-> ReleasedResponse]
SerialCall(st, call) ==
  IF call.op = "Reserve" THEN SerialReserve(st, call.ProductId, call.Quantity)
  ELSE SerialRelease(st, call.ProductId, call.Quantity)

\* a ledger request, as sent: the handler has not started
NewCall(op, pid, quantity, oid) ==
  [pc |-> "lock", op |-> op, ProductId |-> pid, Quantity |-> quantity, OrderId |-> oid,
   resp |-> NotFoundResponse(""), expect |-> NotFoundResponse("")]

\* a CreateOrder request that has begun and not returned
Active(w) == pc[w] \notin {"idle", "done"}
\* history: caller c changes the stock of pid while other requests are running
Touch(c, pid) ==
  [w \in Workers |-> IF w # c /\ Active(w) THEN touched[w] \cup {pid} ELSE touched[w]]

\* mutant: a ledger handler that returns with s.mutex still held
LedgerReturnLocked(c, call, resp) ==
  /\ rpc' = [rpc EXCEPT ![c] = [call EXCEPT !.pc = "done", !.resp = resp]]
  /\ ledgerMutex' = c

\* the response is returned and the deferred s.mutex.Unlock() runs
LedgerReturn(c, call, resp) ==
  /\ rpc' = [rpc EXCEPT ![c] = [call EXCEPT !.pc = "done", !.resp = resp]]
  /\ ledgerMutex' = IF ledgerMutex = c THEN Free ELSE ledgerMutex

\* the handler goes on to change the stock, holding the mutex
LedgerProceed(c, call) ==
  /\ rpc' = [rpc EXCEPT ![c] = [call EXCEPT !.pc = "apply"]]
  /\ ledgerMutex' = c

\* history: the call takes its place in the serial order when it gets the mutex
Serialized(call) == [call EXCEPT !.expect = SerialCall(shadow, call).resp]

\* ReserveStock: s.mutex.Lock(), the lookup and the stock test
ReserveStockCheck(c) ==
  /\ rpc[c].pc = "lock"
  /\ rpc[c].op = "Reserve"
  /\ MutexLock(ledgerMutex)
  /\ shadow' = SerialCall(shadow, rpc[c]).stock
  /\ LET pid == rpc[c].ProductId
         quantity == rpc[c].Quantity
         call == Serialized(rpc[c])
     IN IF pid \notin DOMAIN products
        THEN LedgerReturn(c, call, NotFoundResponse(pid))
        ELSE IF StockInsufficient(products[pid].StockQuantity, quantity)
             THEN LedgerReturn(c, call,
                               InsufficientResponse(products[pid].StockQuantity, quantity))
             ELSE LedgerProceed(c, call)
  /\ UNCHANGED <<products, currentStock, orders, pc, req, pay, ret, ordersCreated, directCalls, updates, commFails,
                 lastUpdate, getVars, orderMutex, clock, log, pre, touched>>

\* ReserveStock: the decrement and the success response
ReserveStockApply(c) ==
  /\ rpc[c].pc = "apply"
  /\ rpc[c].op = "Reserve"
  /\ LET pid == rpc[c].ProductId
         quantity == rpc[c].Quantity
     IN /\ products' = [products EXCEPT
                          ![pid].StockQuantity = StockAfterReserve(@, quantity)]
        /\ LedgerReturn(c, rpc[c], ReservedResponse(quantity))
        /\ touched' = Touch(c, pid)
  /\ UNCHANGED <<shadow, currentStock, orders, pc, req, pay, ret, ordersCreated, directCalls, updates, commFails,
                 lastUpdate, getVars, orderMutex, clock, log, pre>>

\* ReleaseStock: s.mutex.Lock() and the lookup
ReleaseStockCheck(c) ==
  /\ rpc[c].pc = "lock"
  /\ rpc[c].op = "Release"
  /\ MutexLock(ledgerMutex)
  /\ shadow' = SerialCall(shadow, rpc[c]).stock
  /\ LET pid == rpc[c].ProductId
         call == Serialized(rpc[c])
     IN IF pid \notin DOMAIN products
        THEN LedgerReturn(c, call, NotFoundResponse(pid))
        ELSE LedgerProceed(c, call)
  /\ UNCHANGED <<products, currentStock, orders, pc, req, pay, ret, ordersCreated, directCalls, updates, commFails,
                 lastUpdate, getVars, orderMutex, clock, log, pre, touched>>

\* mutant: a ledger that keeps what the second order reserved when it is released
ReleaseStockApplyByOrder(c) ==
  /\ rpc[c].pc = "apply"
  /\ rpc[c].op = "Release"
  /\ LET pid == rpc[c].ProductId
         quantity == IF rpc[c].OrderId = Arrival[2] THEN 0 ELSE rpc[c].Quantity
     IN /\ products' = [products EXCEPT
                          ![pid].StockQuantity = StockAfterRelease(@, quantity)]
        /\ LedgerReturn(c, rpc[c], ReleasedResponse)
        /\ touched' = Touch(c, pid)
  /\ UNCHANGED <<shadow, currentStock, orders, pc, req, pay, ret, ordersCreated, directCalls, updates, commFails,
                 lastUpdate, getVars, orderMutex, clock, log, pre>>

\* ReleaseStock: the increment and the success response
ReleaseStockApply(c) ==
  /\ rpc[c].pc = "apply"
  /\ rpc[c].op = "Release"
  /\ LET pid == rpc[c].ProductId
         quantity == rpc[c].Quantity
     IN /\ products' = [products EXCEPT
                          ![pid].StockQuantity = StockAfterRelease(@, quantity)]
        /\ LedgerReturn(c, rpc[c], ReleasedResponse)
        /\ touched' = Touch(c, pid)
  /\ UNCHANGED <<shadow, currentStock, orders, pc, req, pay, ret, ordersCreated, directCalls, updates, commFails,
                 lastUpdate, getVars, orderMutex, clock, log, pre>>

\* a GetProductStock request, as sent: the handler has not started (locked is
\* history: the record as it was while the call held the read lock)
GetProductStockRequest(pid) ==
  [pc |-> "lock", op |-> "GetStock", ProductId |-> pid, product |-> "nil", err |-> "nil",
   locked |-> "nil"]

\* s.mutex.RLock(): blocks while a writer holds the mutex
MutexRLock(m) == m = Free

\* GetProductStock: RLock, the lookup, RUnlock; an unknown product is an error,
\* for a known one the pointer to the ledger's own record is returned
GetProductStockLookup(c) ==
  /\ rpc[c].pc = "lock"
  /\ rpc[c].op = "GetStock"
  /\ MutexRLock(ledgerMutex)
  /\ IF rpc[c].ProductId \notin DOMAIN products
     THEN rpc' = [rpc EXCEPT ![c].pc = "done", ![c].err = "product not found"]
     ELSE rpc' = [rpc EXCEPT ![c].pc = "read",
                             ![c].locked = products[rpc[c].ProductId]]
  /\ UNCHANGED <<ledgerVars, currentStock, orders, pc, req, pay, ret, ordersCreated, directCalls, updates, commFails,
                 lastUpdate, getVars, orderMutex, clock, log, pre, touched>>

\* observability.CurrentStock.WithLabelValues(product.Id, product.Name).Set(..)
\* (the one place the gauge is written): the product's series gets the stock read
CurrentStockSet(gauge, product) == (product.Id :> product.StockQuantity) @@ gauge

\* the GetProductStock handler reads the record through the pointer, the mutex
\* no longer held, sets the gauge and builds the response from it
GetProductStockRead(c) ==
  /\ rpc[c].pc = "read"
  /\ rpc[c].op = "GetStock"
  /\ rpc' = [rpc EXCEPT ![c].pc = "done", ![c].product = products[rpc[c].ProductId]]
  /\ currentStock' = CurrentStockSet(currentStock, products[rpc[c].ProductId])
  /\ UNCHANGED <<ledgerVars, orders, pc, req, pay, ret, ordersCreated, directCalls, updates, commFails,
                 lastUpdate, getVars, orderMutex, clock, log, pre, touched>>

\* a ledger call ends in a communication error at its caller: the request never
\* reached the handler, or the handler ran to its end and its response was lost
\* (the handlers never look at ctx, so a handler that has started is not interrupted)
LedgerCommFail(c) ==
  /\ rpc[c].pc \in {"lock", "done"}
  /\ commFails < MaxCommFail
  /\ commFails' = commFails + 1
  /\ rpc' = [rpc EXCEPT ![c].pc = "err"]
  /\ UNCHANGED <<ledgerVars, currentStock, orders, pc, req, pay, ret, ordersCreated, directCalls, updates,
                 lastUpdate, getVars, orderMutex, clock, log, pre, touched>>

\* another client of the inventory service calls ReserveStock or ReleaseStock
DirectCall(c) ==
  /\ rpc[c].pc = "none"
  /\ directCalls < MaxDirect
  /\ directCalls' = directCalls + 1
  /\ \E op \in {"Reserve", "Release"}, item \in DirectChoices :
       rpc' = [rpc EXCEPT ![c] = NewCall(op, item.ProductId, item.Quantity, "direct")]
  /\ UNCHANGED <<ledgerVars, currentStock, orders, pc, req, pay, ret, ordersCreated, updates, commFails,
                 lastUpdate, getVars, orderMutex, clock, log, pre, touched>>

\* another client of the inventory service calls GetProductStock
DirectGetStock(c) ==
  /\ rpc[c].pc = "none"
  /\ directCalls < MaxDirect
  /\ directCalls' = directCalls + 1
  /\ \E item \in DirectChoices :
       rpc' = [rpc EXCEPT ![c] = GetProductStockRequest(item.ProductId)]
  /\ UNCHANGED <<ledgerVars, currentStock, orders, pc, req, pay, ret, ordersCreated, updates, commFails,
                 lastUpdate, getVars, orderMutex, clock, log, pre, touched>>

\* that client receives the response (or the error)
DirectReturn(c) ==
  /\ rpc[c].pc \in {"done", "err"}
  /\ rpc' = [rpc EXCEPT ![c] = NoCall]
  /\ UNCHANGED <<ledgerVars, currentStock, orders, pc, req, pay, ret, ordersCreated, directCalls, updates, commFails,
                 lastUpdate, getVars, orderMutex, clock, log, pre, touched>>

\* ------------------------------------------------- payment service (gateway)

\* uuid.New(): an identifier no other call gets; c is the caller and p.call
\* numbers the caller's requests
NewPaymentId(c, p) == <<c, p.call>>

\* ProcessPayment, up to the call of s.rand.Intn: the payment id and the
\* transaction id ("txn_" and the clock's seconds) are generated, then the
\* handler uses the service's one random source, with no lock
ProcessPaymentBegin(w) ==
  /\ pay[w].state = "sent"
  /\ pay' = [pay EXCEPT ![w].state = "rand",
                        ![w].PaymentId = NewPaymentId(w, pay[w]),
                        ![w].TransactionId = clock]
  /\ UNCHANGED <<ledgerVars, currentStock, rpc, orderVars, pc, req, ret, ordersCreated, directCalls, commFails,
                 log, pre, touched>>

\* ProcessPayment, from s.rand.Float32 to the return: the gateway answers
\* SUCCESS or FAILED, whatever the request (a use of the random source that
\* overlaps another one yields some number as well, or ends the process, which
\* the caller sees as PaymentCommFail)
ProcessPayment(w) ==
  /\ pay[w].state = "rand"
  /\ \E status \in {"SUCCESS", "FAILED"} :
       pay' = [pay EXCEPT ![w].state = "done", ![w].Status = status]
  /\ UNCHANGED <<ledgerVars, currentStock, rpc, orderVars, pc, req, ret, ordersCreated, directCalls, commFails,
                 log, pre, touched>>

\* the ProcessPayment call ends in a communication error at the orchestrator
\* (the gateway keeps no state, so whether it ran makes no difference)
PaymentCommFail(w) ==
  /\ pay[w].state \in {"sent", "rand"}
  /\ commFails < MaxCommFail
  /\ commFails' = commFails + 1
  /\ pay' = [pay EXCEPT ![w].state = "err"]
  /\ UNCHANGED <<ledgerVars, currentStock, rpc, orderVars, pc, req, ret, ordersCreated, directCalls,
                 log, pre, touched>>

\* ------------------------------------------------- order service (orchestrator)

\* uuid.New().String(): an id no other request gets
NewOrderId(w) == w
\* the ids a client can ask about: those of stored orders, and one that was never issued
KnownOrderIds == DOMAIN orders \cup {"no-such-order"}
\* the UpdateOrderStatus requests made: any status for a stored order, and the
\* status the test client asks for when the id was never issued
UpdateRequests ==
  ((DOMAIN orders) \X Statuses) \cup {<<"no-such-order", "COMPLETED">>}

\* mutant: the total adds the unit prices and forgets the quantities
RECURSIVE SumItemsNoQuantity(_, _)
SumItemsNoQuantity(items, n) ==
  IF n = 0 THEN 0 ELSE SumItemsNoQuantity(items, n - 1) + items[n].UnitPrice

\* mutant: the total is the amount of the last line item
TotalAmountLastItem(items) ==
  IF items = <<>> THEN 0 ELSE items[Len(items)].UnitPrice * items[Len(items)].Quantity

\* totalAmount += item.UnitPrice * float64(item.Quantity), over the first n items
RECURSIVE SumItems(_, _)
SumItems(items, n) ==
  IF n = 0 THEN 0
  ELSE SumItems(items, n - 1) + items[n].UnitPrice * items[n].Quantity
TotalAmount(items) == SumItems(items, Len(items))

\* history: one collaborator call, as issued, and the same once it has ended
LogEntry(call, pid, quantity, oid, amount) ==
  [call |-> call, ProductId |-> pid, Quantity |-> quantity, OrderId |-> oid,
   Amount |-> amount, res |-> "pending"]
Ended(l, res) == [l EXCEPT ![Len(l)].res = res]

\* how a ledger call ended, as its caller sees it
CallResult(call) ==
  IF call.pc = "err" THEN "err" ELSE IF call.resp.Success THEN "ok" ELSE "declined"
\* how the payment call ended, as its caller sees it
PayResult(p) ==
  IF p.state = "err" THEN "err" ELSE IF p.Status = "SUCCESS" THEN "ok" ELSE "declined"

\* mutant: the reservation loop walks the items backwards
ReserveStockRequestReversed(r, i) ==
  NewCall("Reserve", r.items[Len(r.items) + 1 - i].ProductId,
          r.items[Len(r.items) + 1 - i].Quantity, r.orderID)
\* a gRPC call made with context ctx: when the context is done (deadline
\* expired or request cancelled) the call fails at once and nothing is sent
Invoke(ctx, call) == IF ctx = "done" THEN [call EXCEPT !.pc = "err"] ELSE call
InvokePayment(ctx, p) == IF ctx = "done" THEN [p EXCEPT !.state = "err"] ELSE p

\* the ReserveStockRequest for items[i], called with the request's ctx
ReserveStockRequest(r, i) ==
  Invoke(r.ctx, NewCall("Reserve", r.items[i].ProductId, r.items[i].Quantity, r.orderID))
\* mutant: every release is made for the first item
ReleaseStockRequestFirst(r, i) ==
  NewCall("Release", r.items[1].ProductId, r.items[1].Quantity, r.orderID)
\* the ReleaseStockRequest for items[i], called with the request's ctx
ReleaseStockRequest(r, i) ==
  Invoke(r.ctx, NewCall("Release", r.items[i].ProductId, r.items[i].Quantity, r.orderID))
\* the PaymentRequest for the order, called with the request's ctx
PaymentRequest(r) ==
  InvokePayment(r.ctx,
    [state |-> "sent", OrderId |-> r.orderID, CustomerId |-> r.customerID,
     Amount |-> r.totalAmount, Currency |-> "USD", PaymentMethod |-> "credit_card",
     call |-> 0, PaymentId |-> <<>>, TransactionId |-> -1, Status |-> "none"])

\* history of a ledger request
LogCall(call) == LogEntry(call.op, call.ProductId, call.Quantity, call.OrderId, 0)
\* history of a payment request
LogCharge(p) == LogEntry("Charge", "", 0, p.OrderId, p.Amount)

\* mutant: the reservation loop stops after the first item
ReserveLoopOnce(w, r, i, l) ==
  /\ req' = [req EXCEPT ![w] = [r EXCEPT !.i = i]]
  /\ UNCHANGED <<ret, ordersCreated>>
  /\ IF i <= Len(r.items) /\ i <= 1
     THEN /\ rpc' = [rpc EXCEPT ![w] = NewCall("Reserve", r.items[i].ProductId,
                                                r.items[i].Quantity, r.orderID)]
          /\ log' = [log EXCEPT ![w] =
                       Append(l, LogEntry("Reserve", r.items[i].ProductId,
                                          r.items[i].Quantity, r.orderID, 0))]
          /\ pc' = [pc EXCEPT ![w] = "reserveWait"]
          /\ UNCHANGED pay
     ELSE /\ rpc' = [rpc EXCEPT ![w] = NoCall]
          /\ pay' = [pay EXCEPT ![w] = PaymentRequest(r)]
          /\ log' = [log EXCEPT ![w] = Append(l, LogCharge(PaymentRequest(r)))]
          /\ pc' = [pc EXCEPT ![w] = "payWait"]

\* the reservation loop at index i with history l: ReserveStock is called for
\* items[i]; after the last item ProcessPayment is called for the total
ReserveLoop(w, r, i, l) ==
  /\ req' = [req EXCEPT ![w] = [r EXCEPT !.i = i]]
  /\ UNCHANGED <<ret, ordersCreated>>
  /\ IF i <= Len(r.items)
     THEN /\ rpc' = [rpc EXCEPT ![w] = ReserveStockRequest(r, i)]
          /\ log' = [log EXCEPT ![w] = Append(l, LogCall(ReserveStockRequest(r, i)))]
          /\ pc' = [pc EXCEPT ![w] = "reserveWait"]
          /\ UNCHANGED pay
     ELSE /\ rpc' = [rpc EXCEPT ![w] = NoCall]
          /\ pay' = [pay EXCEPT ![w] = PaymentRequest(r)]
          /\ log' = [log EXCEPT ![w] = Append(l, LogCharge(PaymentRequest(r)))]
          /\ pc' = [pc EXCEPT ![w] = "payWait"]

\* mutant: every outcome is counted as a success
OrdersCreatedIncSuccess(counter, status) == [counter EXCEPT !["success"] = @ + 1]

\* observability.OrdersCreated.WithLabelValues(status).Inc(), in the CreateOrder
\* handler once service.CreateOrder has returned
OrdersCreatedInc(counter, status) == [counter EXCEPT ![status] = @ + 1]

\* mutant: CreateOrder returns the order object together with the error
ReturnErrorWithOrder(w, err, l) ==
  /\ ret' = [ret EXCEPT ![w] = [order |-> req[w].orderID, err |-> err]]
  /\ ordersCreated' = OrdersCreatedInc(ordersCreated, "failed")
  /\ pc' = [pc EXCEPT ![w] = "done"]
  /\ rpc' = [rpc EXCEPT ![w] = NoCall]
  /\ log' = [log EXCEPT ![w] = l]

\* CreateOrder returns (nil, err)
ReturnError(w, err, l) ==
  /\ ret' = [ret EXCEPT ![w] = [order |-> "nil", err |-> err]]
  /\ ordersCreated' = OrdersCreatedInc(ordersCreated, "failed")
  /\ pc' = [pc EXCEPT ![w] = "done"]
  /\ rpc' = [rpc EXCEPT ![w] = NoCall]
  /\ log' = [log EXCEPT ![w] = l]

\* CreateOrder up to its first collaborator call: the id, the total, the order object
CreateOrderCall(w, customerID, items) ==
  /\ pc[w] = "idle"
  /\ \A k \in DOMAIN Arrival : k > 1 /\ Arrival[k] = w => pc[Arrival[k - 1]] # "idle"
  /\ LET orderID == NewOrderId(w)
         totalAmount == TotalAmount(items)
         order == [Id |-> orderID, CustomerId |-> customerID, Items |-> items,
                   TotalAmount |-> totalAmount, Status |-> "PENDING",
                   CreatedAt |-> clock, UpdatedAt |-> clock]
         r == [customerID |-> customerID, items |-> items, orderID |-> orderID,
               totalAmount |-> totalAmount, order |-> order, i |-> 1, ctx |-> "live"]
     IN ReserveLoop(w, r, 1, log[w])
  /\ pre' = [pre EXCEPT ![w] = StockOf(products)]
  /\ touched' = [touched EXCEPT ![w] = {}]
  /\ UNCHANGED <<ledgerVars, currentStock, orderVars, directCalls, commFails>>

\* a client calls CreateOrder
CreateOrderBegin(w) ==
  \E customerID \in CustomerIds, items \in ItemLists : CreateOrderCall(w, customerID, items)

\* the test client calls CreateOrder
TestClientCreateOrder(w) == CreateOrderCall(w, "customer-123", TestClientItems)

\* the reservation loop: ReserveStock returned; an error or a refusal ends
\* CreateOrder, otherwise the loop goes on
CreateOrderReserved(w) ==
  /\ pc[w] = "reserveWait"
  /\ rpc[w].pc \in {"done", "err"}
  /\ LET l == Ended(log[w], CallResult(rpc[w]))
     IN IF rpc[w].pc = "err"
        THEN ReturnError(w, "failed to reserve stock", l) /\ UNCHANGED <<req, pay>>
        ELSE IF ~rpc[w].resp.Success
        THEN ReturnError(w, "insufficient stock", l) /\ UNCHANGED <<req, pay>>
        ELSE ReserveLoop(w, req[w], req[w].i + 1, l)
  /\ UNCHANGED <<ledgerVars, currentStock, orderVars, directCalls, commFails, pre, touched>>

\* mutant: a declined or failed payment is taken for a successful one
PaymentErrorNever(p) == "nil"

\* mutant: CreateOrder treats every payment response as a failure
PaymentErrorAlways(p) ==
  IF p.state = "err" THEN "payment processing failed" ELSE "payment failed"

\* the error a failed payment makes CreateOrder return, "nil" when the payment succeeded
PaymentError(p) ==
  IF p.state = "err" THEN "payment processing failed"
  ELSE IF p.Status # "SUCCESS" THEN "payment failed"
  ELSE "nil"

\* releaseStockForOrder at index i with history l: ReleaseStock is called for
\* items[i]; after the last item CreateOrder returns the payment error
ReleaseStockForOrder(w, i, l) ==
  /\ req' = [req EXCEPT ![w].i = i]
  /\ IF i <= Len(req[w].items)
     THEN /\ rpc' = [rpc EXCEPT ![w] = ReleaseStockRequest(req[w], i)]
          /\ log' = [log EXCEPT ![w] = Append(l, LogCall(ReleaseStockRequest(req[w], i)))]
          /\ pc' = [pc EXCEPT ![w] = "releaseWait"]
          /\ UNCHANGED <<ret, ordersCreated>>
     ELSE ReturnError(w, PaymentError(pay[w]), l)

\* mutant: the order is stored without the move to PROCESSING
StoredStatusPending == "PENDING"

\* the status CreateOrder gives the order it stores
StoredStatus == "PROCESSING"

\* ProcessPayment returned: on an error or a status other than SUCCESS the stock
\* is released; otherwise the order becomes PROCESSING, is stored and returned
CreateOrderPaid(w) ==
  /\ pc[w] = "payWait"
  /\ pay[w].state \in {"done", "err"}
  /\ LET l == Ended(log[w], PayResult(pay[w]))
     IN IF PaymentError(pay[w]) # "nil"
        THEN ReleaseStockForOrder(w, 1, l) /\ UNCHANGED orders
        ELSE LET order == [req[w].order EXCEPT !.Status = StoredStatus, !.UpdatedAt = clock]
             IN /\ MutexLock(orderMutex)
                /\ req' = [req EXCEPT ![w].order = order]
                /\ orders' = (req[w].orderID :> order) @@ orders
                /\ ret' = [ret EXCEPT ![w] = [order |-> req[w].orderID, err |-> "nil"]]
                /\ ordersCreated' = OrdersCreatedInc(ordersCreated, "success")
                /\ pc' = [pc EXCEPT ![w] = "done"]
                /\ log' = [log EXCEPT ![w] = l]
                /\ UNCHANGED rpc
  /\ UNCHANGED <<ledgerVars, currentStock, pay, updates, lastUpdate, getVars, orderMutex, clock, directCalls, commFails, pre, touched>>

\* mutant: releaseStockForOrder gives up at the first ReleaseStock that errors
ReleaseStockReturnedStopOnError(w) ==
  /\ pc[w] = "releaseWait"
  /\ rpc[w].pc \in {"done", "err"}
  /\ LET l == Ended(log[w], CallResult(rpc[w]))
     IN IF rpc[w].pc = "err"
        THEN ReturnError(w, PaymentError(pay[w]), l) /\ UNCHANGED req
        ELSE ReleaseStockForOrder(w, req[w].i + 1, l)
  /\ UNCHANGED <<ledgerVars, currentStock, orderVars, pay, directCalls, commFails, pre, touched>>

\* releaseStockForOrder: ReleaseStock returned, an error is only logged
ReleaseStockReturned(w) ==
  /\ pc[w] = "releaseWait"
  /\ rpc[w].pc \in {"done", "err"}
  /\ ReleaseStockForOrder(w, req[w].i + 1, Ended(log[w], CallResult(rpc[w])))
  /\ UNCHANGED <<ledgerVars, currentStock, orderVars, pay, directCalls, commFails, pre, touched>>

\* the status changes the architecture document calls valid:
\* Pending -> Processing -> Completed or Cancelled
ValidTransition(from, to) ==
  \/ from = "PENDING" /\ to = "PROCESSING"
  \/ from = "PROCESSING" /\ to \in {"COMPLETED", "CANCELLED"}

\* history: the order ids other than orderID keep what GetOrder last returned
Unseen(orderID) == [id \in DOMAIN seen \ {orderID} |-> seen[id]]

\* an UpdateOrderStatus request (lastUpdate): the request, the status the order
\* had, the position of the handler and what is returned (got: a GetOrder had
\* returned the order before the request)
UpdateNotFound(orderID, status) ==
  [pc |-> "done", orderID |-> orderID, status |-> status, was |-> "none",
   order |-> "nil", err |-> "order not found"]
UpdateLocked(orderID, status) ==
  [pc |-> "locked", orderID |-> orderID, status |-> status,
   was |-> orders[orderID].Status, order |-> "nil", err |-> "nil",
   got |-> (orderID \in DOMAIN seen /\ seen[orderID].err = "nil")]

\* mutant: UpdateOrderStatus refuses a status change that is not a valid one
UpdateOrderStatusValidated(orderID, status) ==
  /\ MutexLock(orderMutex)
  /\ updates' = updates + 1
  /\ IF orderID \notin DOMAIN orders
     THEN /\ lastUpdate' = UpdateNotFound(orderID, status)
          /\ UNCHANGED <<orders, orderMutex>>
     ELSE IF ~ValidTransition(orders[orderID].Status, status)
     THEN /\ lastUpdate' = [UpdateLocked(orderID, status) EXCEPT
                              !.pc = "done", !.err = "invalid status transition"]
          /\ UNCHANGED <<orders, orderMutex>>
     ELSE /\ orders' = [orders EXCEPT ![orderID].Status = status]
          /\ lastUpdate' = UpdateLocked(orderID, status)
          /\ orderMutex' = "update"
  /\ seen' = Unseen(orderID)
  /\ UNCHANGED <<ledgerVars, currentStock, rpc, pc, req, pay, ret, ordersCreated, directCalls, commFails,
                 lookup, gets, clock, log, pre, touched>>

\* mutant: UpdateOrderStatus answers without writing the status
UpdateOrderStatusIgnored(orderID, status) ==
  /\ MutexLock(orderMutex)
  /\ updates' = updates + 1
  /\ IF orderID \notin DOMAIN orders
     THEN /\ lastUpdate' = UpdateNotFound(orderID, status)
          /\ UNCHANGED <<orders, orderMutex>>
     ELSE /\ lastUpdate' = UpdateLocked(orderID, status)
          /\ orderMutex' = "update"
          /\ UNCHANGED orders
  /\ seen' = Unseen(orderID)
  /\ UNCHANGED <<ledgerVars, currentStock, rpc, pc, req, pay, ret, ordersCreated, directCalls, commFails,
                 lookup, gets, clock, log, pre, touched>>

\* UpdateOrderStatus: s.mutex.Lock() and the lookup; an unknown id is an error,
\* for a stored order the status is overwritten, the mutex still held
UpdateOrderStatus(orderID, status) ==
  /\ MutexLock(orderMutex)
  /\ updates' = updates + 1
  /\ IF orderID \notin DOMAIN orders
     THEN /\ lastUpdate' = UpdateNotFound(orderID, status)
          /\ UNCHANGED <<orders, orderMutex>>
     ELSE /\ orders' = [orders EXCEPT ![orderID].Status = status]
          /\ lastUpdate' = UpdateLocked(orderID, status)
          /\ orderMutex' = "update"
  /\ seen' = Unseen(orderID)
  /\ UNCHANGED <<ledgerVars, currentStock, rpc, pc, req, pay, ret, ordersCreated, directCalls, commFails,
                 lookup, gets, clock, log, pre, touched>>

\* mutant: an order whose status was updated is taken out of the order table
UpdateOrderStatusReturnDeletes ==
  /\ lastUpdate.pc = "locked"
  /\ orders' = [id \in DOMAIN orders \ {lastUpdate.orderID} |-> orders[id]]
  /\ lastUpdate' = [pc |-> "done", orderID |-> lastUpdate.orderID,
                    status |-> lastUpdate.status, was |-> lastUpdate.was,
                    order |-> lastUpdate.orderID, err |-> "nil",
                    got |-> lastUpdate.got,
                    returned |-> [orders[lastUpdate.orderID] EXCEPT !.UpdatedAt = clock]]
  /\ orderMutex' = Free
  /\ seen' = Unseen(lastUpdate.orderID)
  /\ UNCHANGED <<ledgerVars, currentStock, rpc, pc, req, pay, ret, ordersCreated, directCalls, updates, commFails,
                 lookup, gets, clock, log, pre, touched>>

\* UpdateOrderStatus: UpdatedAt is set to the time of day, the order is returned
\* and the deferred s.mutex.Unlock() runs (returned: the order as the handler
\* reads it through the pointer for its response)
UpdateOrderStatusReturn ==
  /\ lastUpdate.pc = "locked"
  /\ orders' = [orders EXCEPT ![lastUpdate.orderID].UpdatedAt = clock]
  /\ lastUpdate' = [pc |-> "done", orderID |-> lastUpdate.orderID,
                    status |-> lastUpdate.status, was |-> lastUpdate.was,
                    order |-> lastUpdate.orderID, err |-> "nil",
                    got |-> lastUpdate.got,
                    returned |-> orders'[lastUpdate.orderID]]
  /\ orderMutex' = Free
  /\ seen' = Unseen(lastUpdate.orderID)
  /\ UNCHANGED <<ledgerVars, currentStock, rpc, pc, req, pay, ret, ordersCreated, directCalls, updates, commFails,
                 lookup, gets, clock, log, pre, touched>>

\* a second passes
Tick ==
  /\ clock < MaxClock
  /\ clock' = clock + 1
  /\ UNCHANGED <<ledgerVars, currentStock, rpc, orders, pc, req, pay, ret, ordersCreated, directCalls, updates,
                 commFails, lastUpdate, getVars, orderMutex, log, pre, touched>>

\* mutant: GetOrder answers an unknown id with no order and no error
GetOrderMissingNoError(orderID) ==
  /\ lookup.pc \in {"none", "done"}
  /\ gets < MaxGets
  /\ MutexRLock(orderMutex)
  /\ gets' = gets + 1
  /\ IF orderID \notin DOMAIN orders
     THEN /\ lookup' = [pc |-> "done", orderID |-> orderID,
                         order |-> "nil", err |-> "nil"]
          /\ seen' = (orderID :> [order |-> "nil", err |-> "nil"]) @@ seen
     ELSE /\ lookup' = [pc |-> "read", orderID |-> orderID, order |-> "nil", err |-> "nil"]
          /\ UNCHANGED seen
  /\ UNCHANGED <<ledgerVars, currentStock, rpc, orders, pc, req, pay, ret, ordersCreated, directCalls, updates,
                 commFails, lastUpdate, orderMutex, clock, log, pre, touched>>

\* GetOrder: RLock, the lookup, RUnlock; an unknown id is an error, for a
\* stored order the pointer to the table's own record is returned
GetOrder(orderID) ==
  /\ lookup.pc \in {"none", "done"}
  /\ gets < MaxGets
  /\ MutexRLock(orderMutex)
  /\ gets' = gets + 1
  /\ IF orderID \notin DOMAIN orders
     THEN /\ lookup' = [pc |-> "done", orderID |-> orderID,
                         order |-> "nil", err |-> "order not found"]
          /\ seen' = (orderID :> [order |-> "nil", err |-> "order not found"]) @@ seen
     ELSE /\ lookup' = [pc |-> "read", orderID |-> orderID, order |-> "nil", err |-> "nil"]
          /\ UNCHANGED seen
  /\ UNCHANGED <<ledgerVars, currentStock, rpc, orders, pc, req, pay, ret, ordersCreated, directCalls, updates,
                 commFails, lastUpdate, orderMutex, clock, log, pre, touched>>

\* mutant: reading an order marks it COMPLETED
GetOrderReadCompletes ==
  /\ lookup.pc = "read"
  /\ orders' = [orders EXCEPT ![lookup.orderID].Status = "COMPLETED"]
  /\ lookup' = [lookup EXCEPT !.pc = "done", !.order = orders'[lookup.orderID]]
  /\ seen' = (lookup.orderID :> [order |-> orders'[lookup.orderID], err |-> "nil"]) @@ seen
  /\ UNCHANGED <<ledgerVars, currentStock, rpc, pc, req, pay, ret, ordersCreated, directCalls, updates,
                 commFails, lastUpdate, gets, orderMutex, clock, log, pre, touched>>

\* the GetOrder handler reads the order through the pointer, the mutex no
\* longer held, and builds the response from it
GetOrderRead ==
  /\ lookup.pc = "read"
  /\ lookup' = [lookup EXCEPT !.pc = "done", !.order = orders[lookup.orderID]]
  /\ seen' = (lookup.orderID :> [order |-> orders[lookup.orderID], err |-> "nil"]) @@ seen
  /\ UNCHANGED <<ledgerVars, currentStock, rpc, orders, pc, req, pay, ret, ordersCreated, directCalls, updates,
                 commFails, lastUpdate, gets, orderMutex, clock, log, pre, touched>>

\* ------------------------------------------------------------ specification

Next ==
  \/ \E c \in Callers : ReserveStockCheck(c)
  \/ \E c \in Callers : ReserveStockApply(c)
  \/ \E c \in Callers : ReleaseStockCheck(c)
  \/ \E c \in Callers : ReleaseStockApply(c)
  \/ \E c \in Callers : LedgerCommFail(c)
  \/ \E w \in Workers : ProcessPaymentBegin(w)
  \/ \E w \in Workers : ProcessPayment(w)
  \/ \E w \in Workers : PaymentCommFail(w)
  \/ \E w \in Workers : CreateOrderBegin(w)
  \/ \E w \in Workers : CreateOrderReserved(w)
  \/ \E w \in Workers : CreateOrderPaid(w)
  \/ \E w \in Workers : ReleaseStockReturned(w)
  \/ \E r \in UpdateRequests :
       updates < MaxUpdates /\ UpdateOrderStatus(r[1], r[2])
  \/ UpdateOrderStatusReturn

Spec == Init /\ [][Next]_vars

\* the requests of a client that creates one order and then reads and updates it
OrderClients == {Arrival[1]}

\* the order service under the three requests of that client (no communication
\* errors): GetOrder and UpdateOrderStatus come at any time and in any number
\* up to the bounds
NextOrders ==
  \/ \E c \in Workers : ReserveStockCheck(c)
  \/ \E c \in Workers : ReserveStockApply(c)
  \/ \E c \in Workers : ReleaseStockCheck(c)
  \/ \E c \in Workers : ReleaseStockApply(c)
  \/ \E w \in Workers : ProcessPaymentBegin(w)
  \/ \E w \in Workers : ProcessPayment(w)
  \/ \E w \in OrderClients : CreateOrderBegin(w)
  \/ \E w \in Workers : CreateOrderReserved(w)
  \/ \E w \in Workers : CreateOrderPaid(w)
  \/ \E w \in Workers : ReleaseStockReturned(w)
  \/ \E r \in UpdateRequests :
       updates < MaxOrderUpdates /\ UpdateOrderStatus(r[1], r[2])
  \/ UpdateOrderStatusReturn
  \/ Tick
  \/ \E orderID \in KnownOrderIds : GetOrder(orderID)
  \/ GetOrderRead

SpecOrders == Init /\ [][NextOrders]_vars

\* the order service serving the test client's order, with readers and updaters
NextClient ==
  \/ \E w \in Workers : ReserveStockCheck(w)
  \/ \E w \in Workers : ReserveStockApply(w)
  \/ \E w \in Workers : ReleaseStockCheck(w)
  \/ \E w \in Workers : ReleaseStockApply(w)
  \/ \E w \in Workers : ProcessPaymentBegin(w)
  \/ \E w \in Workers : ProcessPayment(w)
  \/ \E w \in OrderClients : TestClientCreateOrder(w)
  \/ \E w \in Workers : CreateOrderReserved(w)
  \/ \E w \in Workers : CreateOrderPaid(w)
  \/ \E w \in Workers : ReleaseStockReturned(w)
  \/ \E r \in UpdateRequests : updates < MaxOrderUpdates /\ UpdateOrderStatus(r[1], r[2])
  \/ UpdateOrderStatusReturn
  \/ Tick
  \/ \E orderID \in KnownOrderIds : GetOrder(orderID)
  \/ GetOrderRead

SpecClient == Init /\ [][NextClient]_vars

\* the smallest quantity a request can carry (quantity is an int32)
MinInt32 == -2147483647 - 1

\* quantities of either sign, and line-item lists of product-1 made of them (the
\* unit price is the client's choice: one cent)
SignedQuantities == {MinInt32, -QtyLarge, 0, QtyLarge}
SignedItem(q) == [ProductId |-> "product-1", Quantity |-> q, UnitPrice |-> 1]
SignedItemLists ==
  {<<SignedItem(q)>> : q \in SignedQuantities}
    \cup {<<SignedItem(QtyLarge), SignedItem(QtyLarge)>>}

\* a client calls CreateOrder with quantities of either sign
SignedCreateOrder(w) ==
  \E items \in SignedItemLists : CreateOrderCall(w, "customer-123", items)

\* CreateOrder calls alone, with quantities of either sign (no other client of
\* the ledger, no communication failure)
NextSigned ==
  \/ \E w \in Workers : ReserveStockCheck(w)
  \/ \E w \in Workers : ReserveStockApply(w)
  \/ \E w \in Workers : ReleaseStockCheck(w)
  \/ \E w \in Workers : ReleaseStockApply(w)
  \/ \E w \in Workers : ProcessPaymentBegin(w)
  \/ \E w \in Workers : ProcessPayment(w)
  \/ \E w \in Workers : SignedCreateOrder(w)
  \/ \E w \in Workers : CreateOrderReserved(w)
  \/ \E w \in Workers : CreateOrderPaid(w)
  \/ \E w \in Workers : ReleaseStockReturned(w)

SpecSigned == Init /\ [][NextSigned]_vars

\* the context of w's CreateOrder request is done: its deadline expired or its
\* client cancelled it
ContextDone(w) ==
  /\ Active(w)
  /\ req[w].ctx = "live"
  /\ req' = [req EXCEPT ![w].ctx = "done"]
  /\ UNCHANGED <<ledgerVars, currentStock, rpc, orderVars, pc, pay, ret, ordersCreated,
                 directCalls, commFails, log, pre, touched>>

\* the collaborator call w is waiting for ends with the context's error (a
\* ledger handler that has started runs to its end, its response is dropped)
CallAborted(w) ==
  /\ req[w].ctx = "done"
  /\ \/ /\ pc[w] \in {"reserveWait", "releaseWait"}
        /\ rpc[w].pc \in {"lock", "done"}
        /\ rpc' = [rpc EXCEPT ![w].pc = "err"]
        /\ UNCHANGED pay
     \/ /\ pc[w] = "payWait"
        /\ pay[w].state \in {"sent", "rand"}
        /\ pay' = [pay EXCEPT ![w].state = "err"]
        /\ UNCHANGED rpc
  /\ UNCHANGED <<ledgerVars, currentStock, orderVars, pc, req, ret, ordersCreated,
                 directCalls, commFails, log, pre, touched>>

\* one CreateOrder request whose context can expire or be cancelled at any
\* moment (no other cause of communication errors)
NextDeadline ==
  \/ \E w \in Workers : ReserveStockCheck(w)
  \/ \E w \in Workers : ReserveStockApply(w)
  \/ \E w \in Workers : ReleaseStockCheck(w)
  \/ \E w \in Workers : ReleaseStockApply(w)
  \/ \E w \in Workers : ProcessPaymentBegin(w)
  \/ \E w \in Workers : ProcessPayment(w)
  \/ \E w \in OrderClients : CreateOrderBegin(w)
  \/ \E w \in Workers : CreateOrderReserved(w)
  \/ \E w \in Workers : CreateOrderPaid(w)
  \/ \E w \in Workers : ReleaseStockReturned(w)
  \/ \E w \in Workers : ContextDone(w)
  \/ \E w \in Workers : CallAborted(w)

SpecDeadline == Init /\ [][NextDeadline]_vars

\* the ledger alone, under concurrent calls of its clients
NextLedger ==
  \/ \E c \in Clients : DirectCall(c)
  \/ \E c \in Clients : DirectGetStock(c)
  \/ \E c \in Clients : DirectReturn(c)
  \/ \E c \in Clients : ReserveStockCheck(c)
  \/ \E c \in Clients : ReserveStockApply(c)
  \/ \E c \in Clients : ReleaseStockCheck(c)
  \/ \E c \in Clients : ReleaseStockApply(c)
  \/ \E c \in Clients : GetProductStockLookup(c)
  \/ \E c \in Clients : GetProductStockRead(c)
  \/ \E c \in Clients : LedgerCommFail(c)

SpecLedger == Init /\ [][NextLedger]_vars

\* the orders the payment service's other clients charge for
ChargeOrders == {"order-1", "order-2"}

\* another client of the payment service calls ProcessPayment (a retry of a
\* charge is one more call for the same order)
DirectCharge(c) ==
  /\ pay[c].state \in {"none", "done"}
  /\ directCalls < MaxDirect
  /\ directCalls' = directCalls + 1
  /\ \E orderID \in ChargeOrders :
       pay' = [pay EXCEPT ![c] =
                 [PaymentRequest([orderID |-> orderID, customerID |-> "customer-123",
                                  totalAmount |-> 2999, ctx |-> "live"])
                    EXCEPT !.call = directCalls']]
  /\ UNCHANGED <<ledgerVars, currentStock, rpc, orderVars, pc, req, ret, ordersCreated, commFails, log, pre, touched>>

\* the payment service alone, under concurrent calls of its clients
NextPayment ==
  \/ \E c \in Clients : DirectCharge(c)
  \/ \E c \in Clients : ProcessPaymentBegin(c)
  \/ \E c \in Clients : ProcessPayment(c)
  \/ Tick

SpecPayment == Init /\ [][NextPayment]_vars

\* the client of the inventory service that reads stock levels
StockReaders == {"c1"}

\* the orders placed while the stock is read: one that is accepted, one refused
\* at its first line (unknown product), and two refused at their second line
\* (insufficient stock, unknown product) after the first was reserved
LiveItemLists ==
  {items \in ItemLists :
     /\ Len(items) > 0
     /\ items[1].ProductId # "product-2"
     /\ Len(items) = 2 => (items[1].ProductId = "product-1" /\ items[2].ProductId # "product-2")}

LiveCreateOrder(w) ==
  \E customerID \in CustomerIds, items \in LiveItemLists : CreateOrderCall(w, customerID, items)

\* the steps the inventory service takes on its own for the call of c: its
\* handler goroutine runs whenever it is not blocked on s.mutex
LedgerStep(c) ==
  \/ ReserveStockCheck(c)
  \/ ReserveStockApply(c)
  \/ ReleaseStockCheck(c)
  \/ ReleaseStockApply(c)
  \/ GetProductStockLookup(c)
  \/ GetProductStockRead(c)

\* the steps the payment service takes on its own for the charge of w
PaymentStep(w) == ProcessPaymentBegin(w) \/ ProcessPayment(w)

\* the steps CreateOrder takes once a collaborator has answered
CreateOrderStep(w) ==
  \/ CreateOrderReserved(w)
  \/ CreateOrderPaid(w)
  \/ ReleaseStockReturned(w)

\* the order service and its two collaborators under CreateOrder requests, reads
\* and status updates of orders, and stock reads of another client (no
\* communication failure: every collaborator call returns what its handler returns)
NextLive ==
  \/ \E c \in OrderClients : ReserveStockCheck(c)
  \/ \E c \in OrderClients : ReserveStockApply(c)
  \/ \E c \in OrderClients : ReleaseStockCheck(c)
  \/ \E c \in OrderClients : ReleaseStockApply(c)
  \/ \E c \in StockReaders : DirectGetStock(c)
  \/ \E c \in StockReaders : GetProductStockLookup(c)
  \/ \E c \in StockReaders : GetProductStockRead(c)
  \/ \E c \in StockReaders : DirectReturn(c)
  \/ \E w \in OrderClients : ProcessPaymentBegin(w)
  \/ \E w \in OrderClients : ProcessPayment(w)
  \/ \E w \in OrderClients : LiveCreateOrder(w)
  \/ \E w \in OrderClients : CreateOrderReserved(w)
  \/ \E w \in OrderClients : CreateOrderPaid(w)
  \/ \E w \in OrderClients : ReleaseStockReturned(w)
  \/ \E r \in UpdateRequests :
       updates < MaxUpdates /\ UpdateOrderStatus(r[1], r[2])
  \/ UpdateOrderStatusReturn
  \/ \E orderID \in KnownOrderIds : GetOrder(orderID)
  \/ GetOrderRead

\* the Go scheduler runs every goroutine that can run: a handler that is not
\* blocked takes its next step (no fairness is asked of the clients, which may
\* stop sending requests)
Fairness ==
  /\ \A c \in Callers : WF_vars(LedgerStep(c))
  /\ \A w \in Workers : WF_vars(PaymentStep(w))
  /\ \A w \in Workers : WF_vars(CreateOrderStep(w))
  /\ WF_vars(UpdateOrderStatusReturn)
  /\ WF_vars(GetOrderRead)

SpecLive == Init /\ [][NextLive]_vars /\ Fairness

\* ------------------------------------------------------------------ claims

\* the collaborator calls of one kind a request has issued, in the order issued
CallsOf(w, kind) == SelectSeq(log[w], LAMBDA e : e.call = kind)
Reserves(w) == CallsOf(w, "Reserve")
Charges(w) == CallsOf(w, "Charge")
Releases(w) == CallsOf(w, "Release")

Items(w) == req[w].items
ItemProducts(w) == {Items(w)[i].ProductId : i \in DOMAIN Items(w)}
Stored(w) == NewOrderId(w) \in DOMAIN orders
Returned(w) == pc[w] = "done"
ReturnedError(w) == Returned(w) /\ ret[w].order = "nil" /\ ret[w].err # "nil"

\* a call entry is the call made for line item it of order oid
ForItem(e, it, oid) ==
  e.ProductId = it.ProductId /\ e.Quantity = it.Quantity /\ e.OrderId = oid

\* every line item was reserved, and every Reserve returned success=true
AllReserved(w) ==
  /\ Len(Reserves(w)) = Len(Items(w))
  /\ \A k \in DOMAIN Reserves(w) : Reserves(w)[k].res = "ok"
\* some Reserve returned an error or success=false
ReserveFailed(w) == \E k \in DOMAIN Reserves(w) : Reserves(w)[k].res \in {"declined", "err"}
\* the Charge of the request returned FAILED / ended in an error / returned SUCCESS
ChargeIs(w, res) == Len(Charges(w)) = 1 /\ Charges(w)[1].res = res

\* the quantity of product p in the line items
RECURSIVE QuantityOf(_, _)
QuantityOf(items, p) ==
  IF items = <<>> THEN 0
  ELSE (IF Head(items).ProductId = p THEN Head(items).Quantity ELSE 0)
       + QuantityOf(Tail(items), p)

\* the sum over the line items of quantity x unit price, in cents
RECURSIVE LineTotal(_)
LineTotal(items) ==
  IF items = <<>> THEN 0
  ELSE Head(items).Quantity * Head(items).UnitPrice + LineTotal(Tail(items))

\* C1 case: the call has returned, all its Reserves succeeded, its Charge returned
\* FAILED, every Release returned a response, and nobody else changed its products
C1_Case(w) ==
  /\ Returned(w)
  /\ AllReserved(w)
  /\ ChargeIs(w, "declined")
  /\ Len(Releases(w)) = Len(Items(w))
  /\ \A k \in DOMAIN Releases(w) : Releases(w)[k].res # "err"
  /\ touched[w] \cap ItemProducts(w) = {}

\* C1: when a CreateOrder whose reservations all succeeded and whose Charge
\* returned FAILED returns (nobody else having touched its products, every Release
\* having completed), each of its products has the stock it had before the call,
\* the call returns an error and no order of the call is in the order table.
C1_CompensationRestoresStock ==
  [][\A w \in Workers :
       (~Returned(w) /\ C1_Case(w)') =>
         (/\ \A p \in ItemProducts(w)' : products'[p].StockQuantity = pre'[w][p]
          /\ ReturnedError(w)'
          /\ ~Stored(w)')]_vars

C1_Witness ==
  \E w \in Workers :
    /\ C1_Case(w)
    /\ Cardinality(ItemProducts(w)) = 2
    /\ \A p \in ItemProducts(w) : products[p].StockQuantity = pre[w][p]

\* C2 (as claimed): when the Reserve of the k-th line item fails, exactly the
\* items 1..k-1 are released, nothing is released for the items k..end, the call
\* returns an error and no order is stored.
C2_PartialReservationReleased ==
  \A w \in Workers :
    (Returned(w) /\ ReserveFailed(w)) =>
      LET k == Len(Reserves(w))
      IN /\ Len(Releases(w)) = k - 1
         /\ \A i \in 1 .. (k - 1) :
              Cardinality({j \in DOMAIN Releases(w) :
                             ForItem(Releases(w)[j], Items(w)[i], NewOrderId(w))})
              = Cardinality({j \in 1 .. (k - 1) : Items(w)[j] = Items(w)[i]})
         /\ ReturnedError(w)
         /\ ~Stored(w)

\* C3 (as claimed): every product's available quantity is at least 0 in every
\* state of the ledger, whatever Reserve and Release calls (quantity > 0) interleave.
C3_StockNonNegative ==
  \A p \in DOMAIN products : products[p].StockQuantity >= 0

\* the calls inside the ledger's critical section
InCriticalSection == {c \in Callers : rpc[c].pc = "apply"}

\* C4: the ledger calls behave as if run one at a time in the order they got the
\* mutex: every Reserve and Release response is the one the serial run gives, the stock is the serial
\* run's stock whenever no call is inside, and at most one call is inside.
C4_ReserveAtomic ==
  /\ \A c \in Callers :
       (rpc[c].pc = "done" /\ rpc[c].op \in {"Reserve", "Release"}) =>
         rpc[c].resp = rpc[c].expect
  /\ InCriticalSection = {} => StockOf(products) = shadow
  /\ Cardinality(InCriticalSection) <= 1

\* two Reserves in flight together on a product that can satisfy only one of them
C4_Witness ==
  \E c, d \in Clients :
    /\ c # d
    /\ rpc[c].pc = "done" /\ rpc[d].pc = "done"
    /\ rpc[c].op = "Reserve" /\ rpc[d].op = "Reserve"
    /\ rpc[c].ProductId = rpc[d].ProductId
    /\ rpc[c].resp.Success
    /\ ~rpc[d].resp.Success
    /\ rpc[d].resp.Message[1] = "Insufficient stock"
    /\ rpc[d].resp.Message[2] >= rpc[c].Quantity

\* C5: when a CreateOrder whose Reserves all succeeded and whose Charge returned
\* SUCCESS returns, it returns the order and no error, the order is in the table
\* with status PROCESSING, the call has issued no Release, and (nobody else having
\* touched its products) each product's stock is down by the quantity ordered.
C5_SuccessPath ==
  [][\A w \in Workers :
       (~Returned(w) /\ Returned(w)' /\ AllReserved(w)' /\ ChargeIs(w, "ok")') =>
         (/\ ret'[w] = [order |-> NewOrderId(w), err |-> "nil"]
          /\ Stored(w)'
          /\ orders'[NewOrderId(w)].Status = "PROCESSING"
          /\ Releases(w)' = <<>>
          /\ \A p \in ItemProducts(w)' :
               p \notin touched'[w] =>
                 products'[p].StockQuantity = pre'[w][p] - QuantityOf(Items(w)', p))]_vars

C5_Witness ==
  \E w \in Workers :
    /\ Returned(w) /\ AllReserved(w) /\ ChargeIs(w, "ok")
    /\ Cardinality(ItemProducts(w)) = 2
    /\ touched[w] = {}
    /\ Stored(w) /\ orders[NewOrderId(w)].Status = "PROCESSING"
    /\ \A p \in ItemProducts(w) :
         products[p].StockQuantity = pre[w][p] - QuantityOf(Items(w), p)

\* the two outcomes of a CreateOrder call
ReturnedOrder(w) ==
  /\ Returned(w)
  /\ ret[w] = [order |-> NewOrderId(w), err |-> "nil"]
  /\ Stored(w)
  /\ orders[NewOrderId(w)].Id = NewOrderId(w)
  /\ orders[NewOrderId(w)].CustomerId = req[w].customerID
  /\ orders[NewOrderId(w)].Items = req[w].items
  /\ orders[NewOrderId(w)].TotalAmount = req[w].totalAmount
ReturnedNothing(w) == ReturnedError(w) /\ ~Stored(w)

\* C6: every CreateOrder call that has returned ended in exactly one of two ways,
\* a fully formed order that is in the order table and no error, or an error and
\* no order; the order table holds the orders of the first kind and nothing else.
C6_OrderOrError ==
  /\ \A w \in Workers :
       Returned(w) => (ReturnedOrder(w) \/ ReturnedNothing(w))
                      /\ ~(ReturnedOrder(w) /\ ReturnedNothing(w))
  /\ DOMAIN orders = {NewOrderId(w) : w \in {v \in Workers : ReturnedOrder(v)}}

C6_Witness ==
  \E v, w \in Workers :
    /\ ReturnedOrder(v)
    /\ ReturnedNothing(w)
    /\ Len(Reserves(w)) >= 1

\* C7: when the Charge of a CreateOrder ended in a communication error or in a
\* status other than SUCCESS, the call has, once it has returned, issued one
\* Release for every line item, with the item's product, quantity and the
\* order's id; it returns an error and the order is not stored.
C7_PaymentFailureReleasesAll ==
  \A w \in Workers :
    (Returned(w) /\ (ChargeIs(w, "err") \/ ChargeIs(w, "declined"))) =>
      /\ Len(Releases(w)) = Len(Items(w))
      /\ \A i \in DOMAIN Items(w) : ForItem(Releases(w)[i], Items(w)[i], NewOrderId(w))
      /\ ReturnedError(w)
      /\ ~Stored(w)

C7_Witness ==
  \E w \in Workers :
    /\ Returned(w)
    /\ ChargeIs(w, "err")
    /\ Len(Releases(w)) = 2
    /\ Cardinality(ItemProducts(w)) = 2

\* C8: the total of every stored order is the sum over the request's line items
\* of quantity x unit price, the amount sent to Charge is that same value, and
\* this stays so whatever happens to the order afterwards.
C8_TotalAmount ==
  \A w \in Workers :
    Stored(w) =>
      /\ orders[NewOrderId(w)].Items = req[w].items
      /\ orders[NewOrderId(w)].TotalAmount = LineTotal(req[w].items)
      /\ Len(Charges(w)) = 1
      /\ Charges(w)[1].Amount = LineTotal(req[w].items)
      /\ pay[w].Amount = LineTotal(req[w].items)

\* a stored order of two items with different quantities, after a status update
C8_Witness ==
  \E w \in Workers :
    /\ Stored(w)
    /\ Len(Items(w)) = 2
    /\ Items(w)[1].Quantity # Items(w)[2].Quantity
    /\ orders[NewOrderId(w)].TotalAmount > 0
    /\ lastUpdate.order = NewOrderId(w)
    /\ orders[NewOrderId(w)].Status = "CANCELLED"

\* C9: a CreateOrder call issues at most one Charge, and issues it only once
\* every line item's Reserve has returned success=true; a call that has returned
\* has issued exactly one Charge if all Reserves succeeded and none otherwise.
C9_ChargeOnce ==
  \A w \in Workers :
    /\ Len(Charges(w)) <= 1
    /\ Charges(w) # <<>> =>
         /\ AllReserved(w)
         /\ \A k \in DOMAIN log[w] :
              log[w][k].call = "Charge" => k = Len(Items(w)) + 1
    /\ ReserveFailed(w) => Charges(w) = <<>>
    /\ Returned(w) => (Len(Charges(w)) = 1 <=> AllReserved(w))

\* a failed Charge after two Reserves, followed by the releases and no second Charge
C9_Witness ==
  \E w \in Workers :
    /\ Returned(w)
    /\ Len(Reserves(w)) = 2
    /\ ChargeIs(w, "declined")
    /\ Len(log[w]) = 5

\* C10: the Reserves of a CreateOrder call are issued for the line items in the
\* order supplied, each after the one before it returned success=true, one at a
\* time, and none after a Reserve that failed.
C10_ReserveInOrder ==
  \A w \in Workers :
    /\ Len(Reserves(w)) <= Len(Items(w))
    /\ \A k \in DOMAIN Reserves(w) :
         /\ log[w][k] = Reserves(w)[k]
         /\ ForItem(Reserves(w)[k], Items(w)[k], NewOrderId(w))
         /\ k < Len(Reserves(w)) => Reserves(w)[k].res = "ok"
    /\ Cardinality({k \in DOMAIN log[w] : log[w][k].res = "pending"}) <= 1
    /\ Returned(w) /\ ReserveFailed(w) =>
         Reserves(w)[Len(Reserves(w))].res \in {"declined", "err"}

\* the second of two different items is being reserved; and elsewhere a first
\* Reserve failed and the second item was never reserved
C10_Witness ==
  /\ \E w \in Workers :
       /\ Len(Reserves(w)) = 2
       /\ Reserves(w)[1].ProductId # Reserves(w)[2].ProductId
       /\ Reserves(w)[2].res = "pending"
  /\ \E w \in Workers :
       /\ Returned(w)
       /\ Len(Items(w)) = 2
       /\ Len(Reserves(w)) = 1
       /\ ReserveFailed(w)

\* the Charge of the request ended in an error or in a status other than SUCCESS
ChargeFailed(w) == ChargeIs(w, "err") \/ ChargeIs(w, "declined")

\* C11: compensation is best-effort and never retried: a CreateOrder call never
\* issues more than one Release per line item, the k-th Release is the one for the
\* k-th item however the Releases before it ended, and a call whose Charge failed
\* returns, after one Release per item, the payment failure as its error whether
\* the Releases succeeded or ended in an error.
C11_CompensationBestEffort ==
  \A w \in Workers :
    /\ Len(Releases(w)) <= Len(Items(w))
    /\ \A k \in DOMAIN Releases(w) : ForItem(Releases(w)[k], Items(w)[k], NewOrderId(w))
    /\ (Returned(w) /\ ChargeFailed(w)) =>
         /\ Len(Releases(w)) = Len(Items(w))
         /\ ret[w].order = "nil"
         /\ ret[w].err = (IF ChargeIs(w, "err") THEN "payment processing failed"
                          ELSE "payment failed")

\* the first of two Releases ended in an error, the second was still made and
\* succeeded, and the call returned the payment failure
C11_Witness ==
  \E w \in Workers :
    /\ Returned(w)
    /\ ChargeIs(w, "declined")
    /\ Len(Items(w)) = 2
    /\ Len(Releases(w)) = 2
    /\ Releases(w)[1].res = "err"
    /\ Releases(w)[2].res = "ok"
    /\ ret[w].err = "payment failed"

\* a Reserve or the Charge among the first k calls of the request has failed
FailedBefore(w, k) ==
  \E j \in 1 .. (k - 1) :
    /\ log[w][j].call \in {"Reserve", "Charge"}
    /\ log[w][j].res \in {"err", "declined"}
\* a Reserve among the first k calls of the request returned success=true for
\* the product and quantity of entry e
ReservedBefore(w, k, e) ==
  \E j \in 1 .. (k - 1) :
    /\ log[w][j].call = "Reserve"
    /\ log[w][j].res = "ok"
    /\ log[w][j].ProductId = e.ProductId
    /\ log[w][j].Quantity = e.Quantity

\* C12: every Release a CreateOrder call issues comes after a Reserve or the
\* Charge of that call has failed, and is for a product and quantity that a
\* Reserve of the call returned success=true for earlier; a call none of whose
\* steps has failed has issued no Release.
C12_ReleaseOnlyAfterFailure ==
  \A w \in Workers :
    /\ \A k \in DOMAIN log[w] :
         log[w][k].call = "Release" =>
           FailedBefore(w, k) /\ ReservedBefore(w, k, log[w][k])
    /\ (\A k \in DOMAIN log[w] : log[w][k].res \in {"ok", "pending"}) => Releases(w) = <<>>
    /\ (rpc[w] # NoCall /\ rpc[w].op = "Release") => ChargeFailed(w)

\* one request is releasing after its Charge was declined, while another has
\* returned its order after a run without a failure and without a Release
C12_Witness ==
  \E v, w \in Workers :
    /\ pc[w] = "releaseWait"
    /\ ChargeIs(w, "declined")
    /\ Len(Releases(w)) = 1
    /\ Returned(v) /\ ChargeIs(v, "ok")
    /\ Len(Reserves(v)) = 2
    /\ Releases(v) = <<>>

\* a step in which the handler of c's call of kind op takes the mutex and looks
\* the product up
Handled(c, op) ==
  /\ rpc[c].pc = "lock"
  /\ rpc[c].op = op
  /\ rpc'[c].pc \in {"apply", "done"}
\* a step in which the handler of c's call of kind op changes the stock and returns
Applied(c, op) ==
  /\ rpc[c].pc = "apply"
  /\ rpc[c].op = op
  /\ rpc'[c].pc = "done"

\* C13: a Reserve that finds its product with fewer units than it asks for
\* returns at once a response (not an error) with success=false and a message
\* that carries the available and the requested figure, and no product's stock
\* (nor anything else in the ledger) changes.
C13_InsufficientStock ==
  [][\A c \in Callers :
       (/\ Handled(c, "Reserve")
        /\ rpc[c].ProductId \in DOMAIN products
        /\ products[rpc[c].ProductId].StockQuantity < rpc[c].Quantity) =>
         (/\ rpc'[c].pc = "done"
          /\ rpc'[c].resp.Success = FALSE
          /\ rpc'[c].resp.Message =
               <<"Insufficient stock", products[rpc[c].ProductId].StockQuantity,
                 rpc[c].Quantity>>
          /\ products' = products)]_vars

\* a Reserve was refused on a product that earlier Reserves had partly used up,
\* and the stock is still the available figure of the message
C13_Witness ==
  \E c \in Clients :
    /\ rpc[c].pc = "done"
    /\ rpc[c].op = "Reserve"
    /\ rpc[c].ProductId \in DOMAIN products
    /\ ~rpc[c].resp.Success
    /\ rpc[c].resp.Message[1] = "Insufficient stock"
    /\ rpc[c].resp.Message[2] = products[rpc[c].ProductId].StockQuantity
    /\ rpc[c].resp.Message[3] = rpc[c].Quantity
    /\ rpc[c].resp.Message[2] < rpc[c].resp.Message[3]
    /\ rpc[c].resp.Message[2] > 0
    /\ rpc[c].resp.Message[2] < InitProducts[rpc[c].ProductId].StockQuantity

\* C14: a Reserve of a quantity > 0 that finds its product with at least that
\* many units goes on to take them: it returns success=true with
\* reservedQuantity = quantity, the product's stock goes down by exactly the
\* quantity, and nothing else of any product (stock, name, price, the set of
\* products) changes.
C14_ReserveDecrements ==
  [][\A c \in Callers :
       LET pid == rpc[c].ProductId
           quantity == rpc[c].Quantity
       IN /\ (/\ Handled(c, "Reserve")
              /\ pid \in DOMAIN products
              /\ quantity > 0
              /\ products[pid].StockQuantity >= quantity) =>
               (rpc'[c].pc = "apply" /\ products' = products)
          /\ Applied(c, "Reserve") =>
               (/\ quantity > 0 => products[pid].StockQuantity >= quantity
                /\ rpc'[c].resp.Success = TRUE
                /\ rpc'[c].resp.ReservedQuantity = quantity
                /\ products' =
                     [products EXCEPT
                        ![pid].StockQuantity = products[pid].StockQuantity - quantity])]_vars

\* a Reserve has returned success=true on the initial ledger
C14_Witness ==
  \E c \in Clients :
    /\ rpc[c].pc = "done"
    /\ rpc[c].op = "Reserve"
    /\ rpc[c].resp.Success
    /\ rpc[c].resp.ReservedQuantity = rpc[c].Quantity
    /\ rpc[c].Quantity > 0
    /\ products = [InitProducts EXCEPT
                     ![rpc[c].ProductId].StockQuantity = @ - rpc[c].Quantity]

\* a step in which GetProductStock takes the read lock and looks the product up
LookedUp(c) ==
  /\ rpc[c].pc = "lock"
  /\ rpc[c].op = "GetStock"
  /\ rpc'[c].pc \in {"read", "done"}

\* C15: a Reserve or a Release for a product id the ledger does not have returns
\* a response (not an error) with success=false, and a GetProductStock for such
\* an id returns a not-found error and no product; none of the three adds a
\* product record or changes any stock.
C15_UnknownProduct ==
  [][\A c \in Callers :
       /\ ((Handled(c, "Reserve") \/ Handled(c, "Release"))
           /\ rpc[c].ProductId \notin DOMAIN products) =>
            (/\ rpc'[c].pc = "done"
             /\ rpc'[c].resp.Success = FALSE
             /\ rpc'[c].resp.Message = <<"Product not found", rpc[c].ProductId>>
             /\ products' = products)
       /\ (LookedUp(c) /\ rpc[c].ProductId \notin DOMAIN products) =>
            (/\ rpc'[c].pc = "done"
             /\ rpc'[c].product = "nil"
             /\ rpc'[c].err = "product not found"
             /\ products' = products)]_vars

\* the three calls have been answered for a product the ledger lacks
C15_Witness ==
  \E c, d, e \in Clients :
    /\ rpc[c].pc = "done" /\ rpc[d].pc = "done" /\ rpc[e].pc = "done"
    /\ rpc[c].op = "Reserve" /\ rpc[d].op = "Release" /\ rpc[e].op = "GetStock"
    /\ {rpc[c].ProductId, rpc[d].ProductId, rpc[e].ProductId} \cap DOMAIN products = {}
    /\ ~rpc[c].resp.Success /\ ~rpc[d].resp.Success
    /\ rpc[e].err = "product not found"
    /\ products = InitProducts

\* C16: a Release for a product the ledger has always goes on to change the
\* stock and returns success=true; the new stock is the old stock plus the
\* quantity as the int32 addition of the code gives it (the true sum whenever
\* that fits), nothing else changes, and no earlier Reserve is asked for.
C16_ReleaseUnconditional ==
  [][\A c \in Callers :
       LET pid == rpc[c].ProductId
           quantity == rpc[c].Quantity
       IN /\ (Handled(c, "Release") /\ pid \in DOMAIN products) =>
               (rpc'[c].pc = "apply" /\ products' = products)
          /\ Applied(c, "Release") =>
               (/\ rpc'[c].resp.Success = TRUE
                /\ products' =
                     [products EXCEPT
                        ![pid].StockQuantity = Add32(products[pid].StockQuantity, quantity)]
                /\ products[pid].StockQuantity <= MaxInt32 - quantity =>
                     products'[pid].StockQuantity
                       = products[pid].StockQuantity + quantity)]_vars

\* the only call made so far is a Release, it returned success=true, and the
\* product now has more than its initial stock
C16_Witness ==
  \E c \in Clients :
    /\ directCalls = 1
    /\ rpc[c].pc = "done"
    /\ rpc[c].op = "Release"
    /\ rpc[c].resp.Success
    /\ products[rpc[c].ProductId].StockQuantity
         = InitProducts[rpc[c].ProductId].StockQuantity + rpc[c].Quantity
    /\ products[rpc[c].ProductId].StockQuantity
         > InitProducts[rpc[c].ProductId].StockQuantity

\* a step in which an UpdateOrderStatus request for order id takes the mutex
Updated(id) == updates' = updates + 1 /\ lastUpdate'.orderID = id
\* a step in which the UpdateOrderStatus request for order id returns
UpdateReturned(id) ==
  lastUpdate.pc = "locked" /\ lastUpdate.orderID = id /\ lastUpdate'.pc = "done"

C18_ValidProgress ==
  [][\A id \in DOMAIN orders :
       \/ orders'[id].Status = orders[id].Status
       \/ ValidTransition(orders[id].Status, orders'[id].Status)]_vars

\* a step in which a GetOrder request comes in and is looked up
Requested == gets' = gets + 1
\* a step in which a GetOrder request returns
Answered == lookup'.pc = "done" /\ (Requested \/ lookup.pc = "read")

\* C19: a GetOrder or an UpdateOrderStatus for an id that is not in the order
\* table returns the not-found error and no order, adds no entry to the table
\* and leaves every stored order as it was.
C19_UnknownOrder ==
  [][/\ (Requested /\ lookup'.orderID \notin DOMAIN orders) =>
          (/\ lookup'.pc = "done"
           /\ lookup'.order = "nil"
           /\ lookup'.err = "order not found"
           /\ orders' = orders)
     /\ (updates' = updates + 1 /\ lastUpdate'.orderID \notin DOMAIN orders) =>
          (/\ lastUpdate'.order = "nil"
           /\ lastUpdate'.err = "order not found"
           /\ orders' = orders)]_vars

\* both requests were refused for an id that was never issued, with an order
\* in the table that still is as CreateOrder stored it
C19_Witness ==
  /\ lookup.pc = "done"
  /\ lookup.orderID \notin DOMAIN orders
  /\ lookup.err = "order not found"
  /\ updates >= 1
  /\ lastUpdate.orderID \notin DOMAIN orders
  /\ lastUpdate.err = "order not found"
  /\ \E w \in Workers : ReturnedOrder(w) /\ orders[NewOrderId(w)].Status = "PROCESSING"

\* C20: GetOrder is a pure lookup: neither the request nor its answer changes
\* the order table or the ledger, and the answer is the same as that of the
\* last GetOrder of the same id unless an UpdateOrderStatus of that id came
\* after that one returned.
C20_GetOrderPure ==
  [][/\ (Requested \/ Answered) =>
          (orders' = orders /\ products' = products /\ ledgerMutex' = ledgerMutex)
     /\ (Answered /\ lookup'.orderID \in DOMAIN seen) =>
          [order |-> lookup'.order, err |-> lookup'.err] = seen[lookup'.orderID]]_vars

\* two GetOrder requests for a stored order, with no UpdateOrderStatus at all,
\* have returned the same order
C20_Witness ==
  /\ gets = 2
  /\ updates = 0
  /\ lookup.pc = "done"
  /\ lookup.orderID \in DOMAIN orders
  /\ DOMAIN seen = {lookup.orderID}
  /\ lookup.err = "nil"
  /\ lookup.order = orders[lookup.orderID]

\* C21 (as claimed): the product a GetProductStock call reports to its caller is
\* the record as it was at the instant the call held the ledger's lock, whatever
\* Reserve or Release ran after the call released the lock.
C21_StockSnapshot ==
  \A c \in Callers :
    (rpc[c].pc = "done" /\ rpc[c].op = "GetStock" /\ rpc[c].err = "nil") =>
      rpc[c].product = rpc[c].locked

\* an UpdateOrderStatus of order id is between its write of the status and its
\* write of UpdatedAt, holding the mutex
Writing(id) == orderMutex # Free /\ lastUpdate.pc = "locked" /\ lastUpdate.orderID = id

\* C22 (as claimed): no read of an order made for a response overlaps with an
\* UpdateOrderStatus write to the same order: the GetOrder handler never reads
\* an order while an UpdateOrderStatus of that order holds the mutex.
C22_ExclusiveWrite ==
  [][(lookup.pc = "read" /\ lookup'.pc = "done") => ~Writing(lookup.orderID)]_vars

\* the ProcessPayment calls that are using the service's random source
InRand == {c \in Callers : pay[c].state = "rand"}

\* C23 (as claimed): concurrent Charge calls share no unsynchronised mutable
\* state: the payment service's random source, which no lock guards, is never
\* in use by two ProcessPayment calls at once.
C23_NoSharedRand == Cardinality(InRand) <= 1

\* line items a validating CreateOrder would refuse
InvalidItems(items) ==
  \/ items = <<>>
  \/ \E i \in DOMAIN items : items[i].Quantity <= 0 \/ items[i].UnitPrice < 0

\* C24 (as claimed): CreateOrder validates its input: a call with an empty
\* line-item list, a quantity <= 0 or a negative unit price returns an error
\* and no order, and stores nothing.
C24_InputValidated ==
  \A w \in Workers :
    (Returned(w) /\ InvalidItems(Items(w))) => (ReturnedError(w) /\ ~Stored(w))

\* the request that created order id
Creator(id) == CHOOSE w \in Workers : NewOrderId(w) = id
\* the ProcessPayment call made for order id returned SUCCESS
Charged(id) == pay[Creator(id)].state = "done" /\ pay[Creator(id)].Status = "SUCCESS"

\* C25: the PENDING status of a creation attempt is never observable: an order
\* enters the order table with status PROCESSING and only after its Charge
\* returned SUCCESS, a stored order's status changes in UpdateOrderStatus steps
\* only (so an order no UpdateOrderStatus was applied to is PROCESSING), and
\* GetOrder reports only orders whose Charge returned SUCCESS, as PROCESSING
\* while no UpdateOrderStatus has run.
C25_PendingUnobserved ==
  [][/\ \A w \in Workers :
          LET id == NewOrderId(w)
          IN /\ (id \notin DOMAIN orders /\ id \in DOMAIN orders') =>
                  (/\ req[w].order.Status = "PENDING"
                   /\ orders'[id].Status = "PROCESSING"
                   /\ Charged(id)
                   /\ ChargeIs(w, "ok")')
             /\ (id \in DOMAIN orders /\ orders'[id].Status # orders[id].Status) =>
                  Updated(id)
             /\ (id \in DOMAIN orders /\ updates = 0) =>
                  orders[id].Status = "PROCESSING"
     /\ (lookup.pc = "read" /\ lookup'.pc = "done") =>
          (/\ lookup'.err = "nil"
           /\ Charged(lookup.orderID)
           /\ updates = 0 => lookup'.order.Status = "PROCESSING")]_vars

\* GetOrder has reported, as PROCESSING, an order whose Charge returned SUCCESS
\* and which no UpdateOrderStatus was applied to
C25_Witness ==
  /\ lookup.pc = "done"
  /\ lookup.err = "nil"
  /\ updates = 0
  /\ lookup.orderID \in DOMAIN orders
  /\ Charged(lookup.orderID)
  /\ lookup.order.Status = "PROCESSING"
  /\ orders[lookup.orderID].Status = "PROCESSING"

\* what identifies an order: everything but its status and its update time
Identity(order) ==
  [Id |-> order.Id, CustomerId |-> order.CustomerId, Items |-> order.Items,
   TotalAmount |-> order.TotalAmount, CreatedAt |-> order.CreatedAt]

\* C26: orders are never deleted and their identity is immutable: an order id in
\* the order table stays there with the same id, customer, line items, total
\* amount and creation time, and a step of an UpdateOrderStatus of one order
\* adds no order and leaves every other order and all ledger stock unchanged.
C26_OrdersKept ==
  [][/\ DOMAIN orders \subseteq DOMAIN orders'
     /\ \A id \in DOMAIN orders :
          /\ id \in DOMAIN orders' => Identity(orders'[id]) = Identity(orders[id])
          /\ (Updated(id) \/ UpdateReturned(id)) =>
               (/\ DOMAIN orders' = DOMAIN orders
                /\ \A other \in DOMAIN orders \ {id} : orders'[other] = orders[other]
                /\ products' = products)]_vars

\* two orders are stored, the status of one was updated and it differs from
\* the status of the other, which is as CreateOrder stored it
C26_Witness ==
  /\ lastUpdate.pc = "done"
  /\ lastUpdate.err = "nil"
  /\ \E id, other \in DOMAIN orders :
       /\ id # other
       /\ lastUpdate.orderID = id
       /\ orders[id].Status = "CANCELLED"
       /\ orders[other].Status = "PROCESSING"
       /\ Identity(orders[id]) = Identity(req[Creator(id)].order)
       /\ orders[other] = req[Creator(other)].order

\* C27: the round trip of the test client: a GetOrder of an order CreateOrder
\* returned succeeds with the same id, customer and line items; the return of an
\* UpdateOrderStatus(id, s) is the order with status s and no error; and a
\* GetOrder answered after that update returned (no other update of the order
\* since) reports status s.
C27_RoundTrip ==
  [][/\ \A w \in Workers :
          (/\ lookup.pc = "read" /\ lookup'.pc = "done"
           /\ lookup.orderID = NewOrderId(w) /\ ReturnedOrder(w)) =>
             (/\ lookup'.err = "nil"
              /\ lookup'.order.Id = ret[w].order
              /\ lookup'.order.CustomerId = req[w].customerID
              /\ lookup'.order.Items = req[w].items)
     /\ \A id \in DOMAIN orders :
          /\ UpdateReturned(id) =>
               (/\ lastUpdate'.err = "nil"
                /\ lastUpdate'.returned.Id = id
                /\ lastUpdate'.returned.Status = lastUpdate.status)
          /\ (/\ lookup.pc = "read" /\ lookup'.pc = "done" /\ lookup.orderID = id
              /\ lastUpdate.pc = "done" /\ lastUpdate.orderID = id) =>
               lookup'.order.Status = lastUpdate.status]_vars

\* the test client's flow has run: the order was created and returned, a
\* GetOrder returned it, UpdateOrderStatus(id, COMPLETED) returned it as
\* COMPLETED, and the GetOrder after that reports COMPLETED
C27_Witness ==
  /\ gets = 2
  /\ updates = 1
  /\ lastUpdate.pc = "done"
  /\ lastUpdate.err = "nil"
  /\ lastUpdate.got
  /\ lastUpdate.was = "PROCESSING"
  /\ lastUpdate.status = "COMPLETED"
  /\ lastUpdate.returned.Status = "COMPLETED"
  /\ lookup.pc = "done"
  /\ lookup.err = "nil"
  /\ lookup.orderID = lastUpdate.orderID
  /\ lookup.orderID \in DOMAIN seen
  /\ ReturnedOrder(Creator(lookup.orderID))
  /\ lookup.order.Status = "COMPLETED"
  /\ lookup.order.Items = req[Creator(lookup.orderID)].items

\* a step in which the CreateOrder of w for the test client's order returns, the
\* services freshly started when it began and its payment successful
TestClientReturn(w) ==
  /\ pc[w] # "done" /\ pc'[w] = "done"
  /\ Items(w) = TestClientItems
  /\ pre[w] = StockOf(InitProducts)
  /\ pay[w].state = "done" /\ pay[w].Status = "SUCCESS"

Paid == {c \in Callers : pay[c].state = "done"}

\* C29 (as claimed): every Charge call generates fresh identifiers: the
\* responses of two distinct ProcessPayment calls, two calls for the same order
\* within one second included, differ in their payment id and in their
\* transaction id.
C29_FreshIds ==
  \A c1, c2 \in Paid :
    c1 # c2 => (/\ pay[c1].PaymentId # pay[c2].PaymentId
                /\ pay[c1].TransactionId # pay[c2].TransactionId)

\* the CreateOrder RPCs that returned an error
Failed == {w \in Workers : ReturnedError(w)}
\* the counter agrees with the order table and with the RPCs that failed
CountsMatch ==
  /\ ordersCreated["success"] = Cardinality(DOMAIN orders)
  /\ ordersCreated["failed"] = Cardinality(Failed)
\* a step in which the CreateOrder RPC of w returns
CreateOrderReturns(w) == pc[w] # "done" /\ pc'[w] = "done"

\* C30: orders_created_total counts orders by outcome: status=success equals the
\* number of orders in the order table, status=failed the number of CreateOrder
\* RPCs that returned an error; an RPC that returns adds one to exactly one of
\* the two (success when it returns an order, failed when it returns an error),
\* and no other step changes the counter.
C30_OrdersCreated ==
  [][/\ CountsMatch
     /\ CountsMatch'
     /\ \A w \in Workers :
          CreateOrderReturns(w) =>
            IF ret'[w].err = "nil"
            THEN ordersCreated' = [ordersCreated EXCEPT !["success"] = @ + 1]
            ELSE ordersCreated' = [ordersCreated EXCEPT !["failed"] = @ + 1]
     /\ (\A w \in Workers : ~CreateOrderReturns(w)) => ordersCreated' = ordersCreated]_vars

\* one CreateOrder RPC returned an order and another one an error: each label
\* of the counter is at one
C30_Witness ==
  /\ \E w1, w2 \in Workers : ReturnedOrder(w1) /\ ReturnedError(w2)
  /\ ordersCreated = [status \in {"success", "failed"} |-> 1]

\* C31 (as claimed): the gauge current_stock reports the current stock level:
\* for every product the gauge has a series of, its value is the product's
\* stock in the ledger, also after a Reserve or a Release changed the stock.
C31_CurrentStock ==
  \A p \in DOMAIN currentStock : currentStock[p] = products[p].StockQuantity

\* no CreateOrder call is in flight
Quiescent == \A w \in Workers : pc[w] \in {"idle", "done"}

\* the quantity of product p in the line items of the orders ids of the order table
RECURSIVE HeldBy(_, _)
HeldBy(ids, p) ==
  IF ids = {} THEN 0
  ELSE LET id == CHOOSE x \in ids : TRUE
       IN QuantityOf(orders[id].Items, p) + HeldBy(ids \ {id}, p)

\* C32 (as claimed): stock conservation at quiescence: with no CreateOrder call
\* in flight and no communication failure so far (the calls have positive
\* quantities and nobody else calls the ledger), every product's stock is its
\* initial stock minus the quantity of it in the line items of the stored orders.
C32_StockConserved ==
  (Quiescent /\ commFails = 0) =>
    \A p \in DOMAIN products :
      products[p].StockQuantity =
        InitProducts[p].StockQuantity - HeldBy(DOMAIN orders, p)

\* C33 (as claimed): CreateOrder calls alone, whatever int32 quantities their
\* line items carry (zero and negative ones included), never drive a product's
\* stock below zero.
C33_StockNeverNegative ==
  \A p \in DOMAIN products : products[p].StockQuantity >= 0

\* C34 (as claimed): Release never wraps the 32-bit stock counter: a Release
\* with quantity > 0 for a product the ledger has leaves the stock at the old
\* stock plus the quantity in true integer arithmetic (the sum fits an int32),
\* so it never makes the stock smaller.
C34_ReleaseNoWrap ==
  [][\A c \in Callers :
       LET pid == rpc[c].ProductId
           quantity == rpc[c].Quantity
       IN (Applied(c, "Release") /\ quantity > 0) =>
            (/\ products[pid].StockQuantity <= MaxInt32 - quantity
             /\ products'[pid].StockQuantity = products[pid].StockQuantity + quantity
             /\ products'[pid].StockQuantity > products[pid].StockQuantity)]_vars

\* C35 (as claimed): when the Charge call of a CreateOrder failed because the
\* request's context was done (deadline expired or request cancelled), the
\* compensating Release calls, made with the same context, still take effect
\* at the ledger: every line item is released and the stock is as it was
\* before the request.
C35_ReleaseAfterDeadline ==
  \A w \in Workers :
    (Returned(w) /\ req[w].ctx = "done" /\ ChargeIs(w, "err")) =>
      (/\ Len(Releases(w)) = Len(Items(w))
       /\ \A k \in DOMAIN Releases(w) : Releases(w)[k].res = "ok"
       /\ StockOf(products) = pre[w])

\* a ledger call of c is in its handler
LedgerRunning(c) == rpc[c].pc \in {"lock", "apply", "read"}

\* no call is in progress and no lock is held
AllReturned ==
  /\ \A w \in Workers : ~Active(w)
  /\ \A c \in Callers : ~LedgerRunning(c)
  /\ lookup.pc # "read"
  /\ lastUpdate.pc # "locked"
  /\ orderMutex = Free
  /\ ledgerMutex = Free

TwinOrderIds == {NewOrderId(w) : w \in Workers} \cup {"direct", ""}

\* the handler of c's Reserve or Release call returns in this step
LedgerReturns(c) ==
  /\ rpc[c].pc \in {"lock", "apply"}
  /\ rpc[c].op \in {"Reserve", "Release"}
  /\ rpc'[c].pc = "done"

\* C37: the ledger has no knowledge of orders: what a Reserve or Release call
\* returns (success flag, message, reservedQuantity) and the stock table it leaves
\* are those of the same call carrying any other orderId on the same stock table,
\* so two runs of one sequence of calls that differ only in the orderIds return
\* the same responses and end in the same ledger state
C37_OrderIdIgnored ==
  [][\A c \in Callers :
       LedgerReturns(c) =>
         \A oid \in TwinOrderIds :
           LET twin == SerialCall(StockOf(products), [rpc[c] EXCEPT !.OrderId = oid])
           IN /\ rpc'[c].resp = twin.resp
              /\ StockOf(products') = twin.stock]_vars

\* two calls that differ only in their orderId have returned
C37_Witness ==
  \E c \in Workers, d \in Workers :
    /\ rpc[c].pc = "done" /\ rpc[d].pc = "done"
    /\ rpc[c].op = "Release" /\ rpc[d].op = "Release"
    /\ rpc[c].ProductId = rpc[d].ProductId
    /\ rpc[c].Quantity = rpc[d].Quantity
    /\ rpc[c].OrderId # rpc[d].OrderId
    /\ rpc[c].resp = rpc[d].resp
    /\ rpc[c].resp.Success

\* CreateOrder of w was declined because the ledger refused a reservation of
\* product p for insufficient stock
DeclinedFor(w, p) ==
  /\ ReturnedError(w)
  /\ ret[w].err = "insufficient stock"
  /\ Len(Reserves(w)) > 0
  /\ Reserves(w)[Len(Reserves(w))].res = "declined"
  /\ Reserves(w)[Len(Reserves(w))].ProductId = p

\* C38 (as claimed): no spurious decline: once every CreateOrder call has
\* returned, an order that was declined for insufficient stock of a product asked
\* for more of it than its initial stock less the quantities of the persisted
\* orders; stock held for a while by an order whose payment then failed never
\* makes another order be declined.
C38_NoSpuriousDecline ==
  Quiescent =>
    \A w \in Workers : \A p \in DOMAIN products :
      DeclinedFor(w, p) =>
        InitProducts[p].StockQuantity - HeldBy(DOMAIN orders, p) < QuantityOf(Items(w), p)
====
